---- MODULE Spec2Model ----
(***************************************************************************)
(* Verification model of the stock-take screens.                           *)
(*                                                                         *)
(*   - StockTakeSheets (src/unnamed/part_001): the list screen with the    *)
(*     sheet cards, the items grouped by location and the count modal.     *)
(*   - CreateStockSheet (src/create-stock-sheet.tsx): the creation form    *)
(*     with its calendar picker, its location picker, the simulated        *)
(*     submission and the navigate-back requests.                          *)
(*                                                                         *)
(* Every React state cell (useState) is a variable; every handler is one   *)
(* action.  JavaScript strings that the code inspects character by         *)
(* character (the count input) are sequences of one-character strings;     *)
(* JavaScript numbers that may be NaN or null are tagged records.          *)
(***************************************************************************)
EXTENDS Integers, Sequences, FiniteSets

VARIABLES
    activeTab,          \* part_001:34   'sheet' | 'item'
    modalVisible,       \* part_001:35
    selectedItem,       \* part_001:36   StockItem | null
    countInput,         \* part_001:37   text of the count field
    expandedLocations,  \* part_001:38   string[]
    sheets,             \* part_001:40   StockSheet[]
    items,              \* part_001:76   StockItem[]
    alerts,             \* number of Alert.alert('Success', ...) calls of saveCount
    lastModalOp,        \* history: the count-modal handler that ran last
    now,                \* the clock: hours since 1970-01-01T00:00Z
    tz,                 \* the device's zone: local time = UTC + tz hours
    loading,            \* create-stock-sheet.tsx:34
    formData,           \* create-stock-sheet.tsx:37
    errors,             \* create-stock-sheet.tsx:46
    showCalendar,       \* create-stock-sheet.tsx:67
    calendarDate,       \* create-stock-sheet.tsx:68   a Date (an instant)
    lastPress,          \* history: the last press on a calendar cell or an alert button
    selectedTemplate,   \* create-stock-sheet.tsx:65
    showLocationModal,  \* create-stock-sheet.tsx:66
    dialogs,            \* the alerts on display (Alert.alert), the last one on top
    outstanding,        \* calls of handleCreateSheet suspended at their await
    sheetIds,           \* the values newSheetId has taken, in order
    backRequests        \* number of router.back() calls

listVars == <<activeTab, modalVisible, selectedItem, countInput,
              expandedLocations, sheets, items, alerts, lastModalOp>>

\* the state of the submission, of the pickers beside the calendar and of
\* the navigation
flowVars == <<selectedTemplate, showLocationModal, dialogs, outstanding,
              sheetIds, backRequests>>

formVars == <<now, tz, loading, formData, errors, showCalendar, calendarDate,
              lastPress, flowVars>>

vars == <<listVars, formVars>>

-----------------------------------------------------------------------------
(* Bounds of the exploration *)

\* successful saves explored per run (each save commits one count)
MaxSaves == 1

\* months the calendar is navigated away from the month of the clock
MaxMonthsAway == 1

-----------------------------------------------------------------------------
(* JavaScript values *)

\* a number value: an integer, or NaN; null is the "uncounted" sentinel
Num(n) == [kind |-> "int", val |-> n]
NaN == [kind |-> "nan", val |-> 0]
Null == [kind |-> "null", val |-> 0]

IsInt(v) == v.kind = "int"

\* a - b on numbers: NaN is absorbing
Minus(a, b) == IF IsInt(a) /\ IsInt(b) THEN Num(a.val - b.val) ELSE NaN

\* a string as the sequence of its characters
Range(s) == {s[k] : k \in DOMAIN s}

Digits == <<"0", "1", "2", "3", "4", "5", "6", "7", "8", "9">>

IsDigit(c) == \E d \in DOMAIN Digits : Digits[d] = c

DigitVal(c) == (CHOOSE d \in DOMAIN Digits : Digits[d] = c) - 1

\* StrWhiteSpace characters that the inputs of this model can hold
IsWhiteSpace(c) == c \in {" ", "\t", "\n"}

RECURSIVE NatToString(_)
NatToString(n) ==
    IF n < 10 THEN <<Digits[n + 1]>>
    ELSE NatToString(n \div 10) \o <<Digits[(n % 10) + 1]>>

\* Number.prototype.toString() in radix 10
toString(v) ==
    IF v.kind = "nan" THEN <<"N", "a", "N">>
    ELSE IF v.val < 0 THEN <<"-">> \o NatToString(-v.val)
    ELSE NatToString(v.val)

RECURSIVE SkipWhiteSpace(_)
SkipWhiteSpace(s) ==
    IF s # <<>> /\ IsWhiteSpace(Head(s)) THEN SkipWhiteSpace(Tail(s)) ELSE s

\* the longest prefix of s made of decimal digits
RECURSIVE DigitPrefix(_)
DigitPrefix(s) ==
    IF s # <<>> /\ IsDigit(Head(s)) THEN <<Head(s)>> \o DigitPrefix(Tail(s))
    ELSE <<>>

RECURSIVE DigitsValue(_, _)
DigitsValue(s, acc) ==
    IF s = <<>> THEN acc ELSE DigitsValue(Tail(s), acc * 10 + DigitVal(Head(s)))

\* parseInt(string) with no radix argument: leading white space is skipped,
\* one sign is read, then the longest run of decimal digits; NaN if there is
\* none.  (No input of this model begins with the hexadecimal prefix 0x.)
parseInt(s) ==
    LET t == SkipWhiteSpace(s)
        neg == t # <<>> /\ Head(t) = "-"
        u == IF t # <<>> /\ Head(t) \in {"-", "+"} THEN Tail(t) ELSE t
        d == DigitPrefix(u)
    IN  IF d = <<>> THEN NaN
        ELSE IF neg THEN Num(-DigitsValue(d, 0)) ELSE Num(DigitsValue(d, 0))

\* mutant of Truthy: the guard on the text is always passed
Truthy_Always(s) == TRUE

\* truthiness of a string: non-empty
Truthy(s) == s # <<>>

-----------------------------------------------------------------------------
(* Seed data of the list screen *)

NoItem == [id |-> "null"]

Sheet(id, sheetId, date, location, createdBy, status, totalItems, discrepancies) ==
    [id |-> id, sheetId |-> sheetId, date |-> date, location |-> location,
     createdBy |-> createdBy, status |-> status, totalItems |-> totalItems,
     discrepancies |-> discrepancies, expanded |-> FALSE]

SeedSheets ==
    << Sheet("1", "ST-202507000001", "07/22/2025", "Warehouse A", "JOJO", "In Progress", 5, 2),
       Sheet("2", "ST-202507000002", "07/21/2025", "Warehouse B", "ADMIN", "Completed", 8, 1),
       Sheet("3", "ST-202507000003", "07/20/2025", "Warehouse A", "JOJO", "Draft", 3, 0) >>

Item(id, sheetId, category, itemName, location, systemQuantity, countedQuantity, unit, variance) ==
    [id |-> id, sheetId |-> sheetId, category |-> category, itemName |-> itemName,
     location |-> location, systemQuantity |-> Num(systemQuantity),
     countedQuantity |-> countedQuantity, unit |-> unit, variance |-> Num(variance)]

SeedItems ==
    << Item("1", "ST-202507000001", "FURNITURE", "Brake Disc with Granite Slab",
            "Warehouse A", 100, Num(98), "UNIT", -2),
       Item("2", "ST-202507000001", "ELECTRONICS", "Industrial Motor Controller",
            "Warehouse A", 25, Null, "PCS", 0),
       Item("3", "ST-202507000002", "RAW MATERIAL", "Steel Rod Bundle",
            "Warehouse B", 50, Num(52), "BUNDLE", 2),
       Item("4", "ST-202507000001", "TOOLS", "Precision Drill Set",
            "Warehouse A", 15, Null, "SET", 0),
       Item("5", "ST-202507000002", "SAFETY", "Safety Helmet",
            "Warehouse B", 200, Num(195), "PCS", -5) >>

\* texts the user may leave in the count field (onChangeText)
InputTexts ==
    { <<>>,
      <<"9", "8">>,
      <<"0">>,
      <<"a", "b", "c">>,
      <<" ">>,
      <<" ", "-", "3", "x">> }

-----------------------------------------------------------------------------
(* Derived view: items grouped by location *)

\* index of key in the entry list acc, 0 if absent
KeyIndex(acc, key) ==
    IF \E k \in DOMAIN acc : acc[k].key = key
    THEN CHOOSE k \in DOMAIN acc : acc[k].key = key
    ELSE 0

\* mutant of GroupStep: the group's array is created anew on every item
GroupStep_Reset(acc, item) ==
    LET k == KeyIndex(acc, item.location)
    IN  IF k = 0
        THEN Append(acc, [key |-> item.location, items |-> <<item>>])
        ELSE [acc EXCEPT ![k].items = <<item>>]

\* one step of the reduce callback
GroupStep(acc, item) ==
    LET withKey == IF KeyIndex(acc, item.location) = 0
                   THEN Append(acc, [key |-> item.location, items |-> <<>>])
                   ELSE acc
        k == KeyIndex(withKey, item.location)
    IN  [withKey EXCEPT ![k].items = Append(@, item)]

RECURSIVE Reduce(_, _)
Reduce(list, acc) ==
    IF list = <<>> THEN acc ELSE Reduce(Tail(list), GroupStep(acc, Head(list)))

\* the insertion-ordered object built by items.reduce, as its entry list
groupedItems == Reduce(items, <<>>)

includes(list, x) == \E k \in DOMAIN list : list[k] = x

\* Array.prototype.filter(loc => loc !== location)
RECURSIVE filterNot(_, _)
filterNot(list, x) ==
    IF list = <<>> THEN <<>>
    ELSE IF Head(list) # x THEN <<Head(list)>> \o filterNot(Tail(list), x)
    ELSE filterNot(Tail(list), x)

-----------------------------------------------------------------------------
(* JavaScript Date *)

\* A Date is an instant, counted here in hours since 1970-01-01T00:00Z.  The
\* local fields are those of the instant shifted by the zone offset tz (a
\* zone without daylight-saving changes).

HoursPerDay == 24

\* day number (days since 1970-01-01) of the civil date y-m-d, m in 1..12
DaysFromCivil(y, m, d) ==
    LET yy == IF m <= 2 THEN y - 1 ELSE y
        era == yy \div 400
        yoe == yy - era * 400
        mp == (m + 9) % 12
        doy == (153 * mp + 2) \div 5 + d - 1
        doe == yoe * 365 + yoe \div 4 - yoe \div 100 + doy
    IN  era * 146097 + doe - 719468

\* civil date [y, m, d] of a day number, m in 1..12
CivilOfDay(z) ==
    LET zz == z + 719468
        era == zz \div 146097
        doe == zz - era * 146097
        yoe == (doe - doe \div 1460 + doe \div 36524 - doe \div 146096) \div 365
        doy == doe - (365 * yoe + yoe \div 4 - yoe \div 100)
        mp == (5 * doy + 2) \div 153
        d == doy - (153 * mp + 2) \div 5 + 1
        m == IF mp < 10 THEN mp + 3 ELSE mp - 9
    IN  [y |-> yoe + era * 400 + (IF m <= 2 THEN 1 ELSE 0), m |-> m, d |-> d]

\* the days the clocks and calendars of this model can show, tabulated once
TabulatedDays == DaysFromCivil(2023, 1, 1)..DaysFromCivil(2027, 1, 1)

CivilTable == [z \in TabulatedDays |-> CivilOfDay(z)]

CivilFromDays(z) == IF z \in TabulatedDays THEN CivilTable[z] ELSE CivilOfDay(z)

\* day number of the local calendar day an instant falls on
LocalDay(t) == (t + tz) \div HoursPerDay

\* the instant of local midnight of a day number
LocalMidnight(day) == day * HoursPerDay - tz

getFullYear(t) == CivilFromDays(LocalDay(t)).y

\* month index 0..11
getMonth(t) == CivilFromDays(LocalDay(t)).m - 1

getDate(t) == CivilFromDays(LocalDay(t)).d

\* 0 = Sunday; 1970-01-01 was a Thursday
getDay(t) == (LocalDay(t) + 4) % 7

\* new Date(year, monthIndex, day): local midnight; a month index or a day
\* outside its range carries into the neighbouring months
NewDate(year, monthIndex, day) ==
    LET y == year + monthIndex \div 12
        m == monthIndex % 12
    IN  LocalMidnight(DaysFromCivil(y, m + 1, 1) + day - 1)

\* date.setDate(day): the same local month and time of day, day of month set
setDate(t, day) ==
    LET first == DaysFromCivil(getFullYear(t), getMonth(t) + 1, 1)
        timeOfDay == (t + tz) % HoursPerDay
    IN  LocalMidnight(first + day - 1) + timeOfDay

\* date.setHours(0, 0, 0, 0)
setHoursZero(t) == LocalMidnight(LocalDay(t))

\* date.toISOString().split('T')[0]: the UTC calendar date of the instant.
\* The text YYYY-MM-DD is kept as its three numbers.
isoDate(t) == CivilFromDays(t \div HoursPerDay)

\* new Date('YYYY-MM-DD'): a date-only text is read as UTC midnight
parseIsoDate(str) == DaysFromCivil(str.y, str.m, str.d) * HoursPerDay

-----------------------------------------------------------------------------
(* The creation form *)

Undefined == "undefined"

NoDate == [y |-> 0, m |-> 0, d |-> 0]

\* clocks and zones the form is opened under: instants as UTC date and hour
Clock(y, m, d, hour) == DaysFromCivil(y, m, d) * HoursPerDay + hour

StartClocks ==
    { Clock(2024, 2, 29, 12),      \* leap day, mid-day
      Clock(2024, 12, 31, 23),     \* an hour before the UTC year ends
      Clock(2025, 6, 1, 3) }       \* early on the 1st of a month that starts on a Sunday

Zones == {-5, 0, 2}

\* the list screen, while the form is the mounted screen
ListNotMounted ==
    /\ activeTab = "sheet"
    /\ modalVisible = FALSE
    /\ selectedItem = NoItem
    /\ countInput = <<>>
    /\ expandedLocations = <<"Warehouse A">>
    /\ sheets = SeedSheets
    /\ items = SeedItems
    /\ alerts = 0
    /\ lastModalOp = "init"

InitialFormData(t) ==
    [sheetName |-> <<>>, description |-> <<>>, location |-> <<>>,
     createdBy |-> <<"J", "O", "J", "O">>, scheduledDate |-> isoDate(t)]

NoErrors ==
    [sheetName |-> Undefined, location |-> Undefined,
     createdBy |-> Undefined, scheduledDate |-> Undefined]

\* no picker beside the calendar is open, no alert is on display, nothing was
\* submitted and the screen was not left
FlowIdle ==
    /\ selectedTemplate = "blank"
    /\ showLocationModal = FALSE
    /\ dialogs = <<>>
    /\ outstanding = 0
    /\ sheetIds = <<>>
    /\ backRequests = 0

InitForm ==
    /\ now \in StartClocks
    /\ tz \in Zones
    /\ loading = FALSE
    /\ formData = InitialFormData(now)
    /\ errors = NoErrors
    /\ showCalendar = FALSE
    /\ calendarDate = now
    /\ lastPress = "none"
    /\ FlowIdle
    /\ ListNotMounted

\* the form's variables while the list is the mounted screen
FormNotMounted ==
    /\ now = Clock(2025, 7, 22, 12)
    /\ tz = 0
    /\ loading = FALSE
    /\ formData = InitialFormData(now)
    /\ errors = NoErrors
    /\ showCalendar = FALSE
    /\ calendarDate = now
    /\ lastPress = "none"
    /\ FlowIdle

\* the new formData and errors of updateFormData(field, value)
updatedFormData(field, value) == [formData EXCEPT ![field] = value]

\* mutant of updatedErrors: every error is cleared
updatedErrors_ClearAll(field) == NoErrors

\* the errors after the setErrors call of updateFormData(field, value)
updatedErrors(field) ==
    IF field \in DOMAIN errors /\ errors[field] # Undefined
    THEN [errors EXCEPT ![field] = Undefined]
    ELSE errors

\* String.prototype.trim(): white space is dropped at both ends
RECURSIVE TrimEnd(_)
TrimEnd(text) ==
    IF text # <<>> /\ IsWhiteSpace(text[Len(text)])
    THEN TrimEnd(SubSeq(text, 1, Len(text) - 1))
    ELSE text

trim(text) == TrimEnd(SkipWhiteSpace(text))

\* mutant of validateForm: the checks stop at the first rule that fails
validateForm_EarlyExit(data) ==
    IF ~Truthy(trim(data.sheetName))
    THEN [NoErrors EXCEPT !.sheetName = "Sheet name is required"]
    ELSE IF Len(trim(data.sheetName)) < 3
    THEN [NoErrors EXCEPT !.sheetName = "Sheet name must be at least 3 characters"]
    ELSE IF ~Truthy(trim(data.location))
    THEN [NoErrors EXCEPT !.location = "Location is required"]
    ELSE IF ~Truthy(trim(data.createdBy))
    THEN [NoErrors EXCEPT !.createdBy = "Created by field is required"]
    ELSE IF data.scheduledDate = NoDate
    THEN [NoErrors EXCEPT !.scheduledDate = "Scheduled date is required"]
    ELSE IF parseIsoDate(data.scheduledDate) < setHoursZero(now)
    THEN [NoErrors EXCEPT !.scheduledDate = "Scheduled date cannot be in the past"]
    ELSE NoErrors

\* the newErrors object that validateForm builds from the field values data;
\* a key that is not set reads as undefined
validateForm(data) ==
    [sheetName |->
        IF ~Truthy(trim(data.sheetName)) THEN "Sheet name is required"
        ELSE IF Len(trim(data.sheetName)) < 3
             THEN "Sheet name must be at least 3 characters"
             ELSE Undefined,
     location |->
        IF ~Truthy(trim(data.location)) THEN "Location is required" ELSE Undefined,
     createdBy |->
        IF ~Truthy(trim(data.createdBy)) THEN "Created by field is required"
        ELSE Undefined,
     scheduledDate |->
        IF data.scheduledDate = NoDate THEN "Scheduled date is required"
        ELSE IF parseIsoDate(data.scheduledDate) < setHoursZero(now)
             THEN "Scheduled date cannot be in the past"
             ELSE Undefined]

\* validateForm on the form as it is
validationErrors == validateForm(formData)

\* the locations offered by the location picker
locations ==
    << <<"W", "a", "r", "e", "h", "o", "u", "s", "e", " ", "A">>,
       <<"W", "a", "r", "e", "h", "o", "u", "s", "e", " ", "B">>,
       <<"W", "a", "r", "e", "h", "o", "u", "s", "e", " ", "C">>,
       <<"S", "t", "o", "r", "a", "g", "e", " ", "R", "o", "o", "m", " ", "1">>,
       <<"S", "t", "o", "r", "a", "g", "e", " ", "R", "o", "o", "m", " ", "2">> >>

\* the ids of the template cards
templates == <<"blank", "furniture", "electronics", "raw-materials">>

\* texts typed into the Sheet Name, Description and Created By fields
SheetNameTexts == { <<>>, <<" ", "a">>, <<"a", "b", "c">> }

DescriptionTexts == { <<>>, <<" ">>, <<"d">> }

CreatedByTexts == { <<>>, <<"X">> }

\* rows pressed in the location picker, and template cards pressed
PickedLocations == {1, 4}

PickedTemplates == {1, 4}

\* the alerts of the form; the Success alert shows the new sheet id
ValidationAlert == [title |-> "Validation Error", sheetId |-> <<>>]

SuccessAlert(newSheetId) == [title |-> "Success", sheetId |-> newSheetId]

ErrorAlert == [title |-> "Error", sheetId |-> <<>>]

DiscardAlert == [title |-> "Discard Changes", sheetId |-> <<>>]

\* Alert.alert(...) while the alerts dialogs are on display: the platform
\* either presents the new alert over them or replaces them by it
alertShown(alert) == { Append(dialogs, alert), <<alert>> }

\* the alert that takes the presses, and the alerts left when it is dismissed
topDialog == dialogs[Len(dialogs)]

dismissed == SubSeq(dialogs, 1, Len(dialogs) - 1)

\* mutant of padStart: the text is left as it is
padStart_None(text, targetLength, padString) == text

\* String.prototype.padStart with a one-character pad
RECURSIVE padStart(_, _, _)
padStart(text, targetLength, padString) ==
    IF Len(text) >= targetLength THEN text
    ELSE padStart(<<padString>> \o text, targetLength, padString)

\* values of Math.floor(Math.random() * 10000): the ends of the range and
\* the values at which the number of digits changes
RandomSuffixes == {0, 9, 10, 99, 100, 999, 1000, 9999}

\* the template literal of newSheetId, evaluated at the instant t
newSheetId(t, random) ==
    <<"S", "T", "-">>
        \o NatToString(getFullYear(t))
        \o padStart(NatToString(getMonth(t) + 1), 2, "0")
        \o padStart(NatToString(getDate(t)), 2, "0")
        \o padStart(NatToString(random), 4, "0")

\* mutant of simulatedCall: the awaited promise is rejected
simulatedCall_Rejected == "rejected"

\* the promise awaited by handleCreateSheet: its executor only ever calls
\* resolve (from the timer), so the promise is fulfilled
simulatedCall == "resolved"

\* handleCancel: hasChanges
hasChanges ==
    \/ Truthy(trim(formData.sheetName))
    \/ Truthy(trim(formData.description))
    \/ Truthy(trim(formData.location))
    \/ selectedTemplate # "blank"

\* Each Date of generateCalendarDays is computed once and then read, as in
\* the code: a value bound by  x \in {e}  is evaluated a single time.

\* firstDay = new Date(year, month, 1)
gridFirstDay == NewDate(getFullYear(calendarDate), getMonth(calendarDate), 1)

\* mutant of gridStartDate: the grid starts on the 1st of the month, not on
\* the Sunday on or before it
gridStartDate_NoRewind == gridFirstDay

\* startDate = new Date(firstDay), moved back by firstDay.getDay() days
gridStartDate ==
    CHOOSE startDate \in
        { setDate(firstDay, getDate(firstDay) - getDay(firstDay)) :
            firstDay \in {gridFirstDay} } : TRUE

\* currentDate = new Date(startDate), setDate(startDate.getDate() + i)
gridCurrentDate(i) ==
    CHOOSE currentDate \in
        { setDate(startDate, getDate(startDate) + i) :
            startDate \in {gridStartDate} } : TRUE

\* mutant of dayInfoOf: isCurrentMonth compares with the month of today
dayInfoOf_MonthOfToday(currentDate, month, today) ==
    [date |-> currentDate,
     day |-> getDate(currentDate),
     isCurrentMonth |-> getMonth(currentDate) = getMonth(today),
     isToday |-> currentDate = today,
     isPast |-> currentDate < today,
     isSelected |-> isoDate(currentDate) = formData.scheduledDate,
     dateString |-> isoDate(currentDate)]

\* mutant of dayInfoOf: today counts as past
dayInfoOf_TodayIsPast(currentDate, month, today) ==
    [date |-> currentDate,
     day |-> getDate(currentDate),
     isCurrentMonth |-> getMonth(currentDate) = month,
     isToday |-> currentDate = today,
     isPast |-> currentDate <= today,
     isSelected |-> isoDate(currentDate) = formData.scheduledDate,
     dateString |-> isoDate(currentDate)]

\* the object pushed for currentDate
dayInfoOf(currentDate, month, today) ==
    [date |-> currentDate,
     day |-> getDate(currentDate),
     isCurrentMonth |-> getMonth(currentDate) = month,
     isToday |-> currentDate = today,
     isPast |-> currentDate < today,
     isSelected |-> isoDate(currentDate) = formData.scheduledDate,
     dateString |-> isoDate(currentDate)]

\* the cell i (0..41) of generateCalendarDays
calendarCell(i) ==
    CHOOSE dayInfo \in
        { dayInfoOf(currentDate, month, today) :
            currentDate \in {gridCurrentDate(i)},
            month \in {getMonth(calendarDate)},
            today \in {setHoursZero(now)} } : TRUE

CellCount == 42

\* the array days: startDate, month and today are computed once, before the
\* loop
generateCalendarDays ==
    CHOOSE days \in
        { [k \in 1..CellCount |->
              dayInfoOf(setDate(startDate, getDate(startDate) + (k - 1)), month, today)] :
            startDate \in {gridStartDate},
            month \in {getMonth(calendarDate)},
            today \in {setHoursZero(now)} } : TRUE

-----------------------------------------------------------------------------
(* The list screen *)

InitList ==
    /\ activeTab = "sheet"
    /\ modalVisible = FALSE
    /\ selectedItem = NoItem
    /\ countInput = <<>>
    /\ expandedLocations = <<"Warehouse A">>
    /\ sheets = SeedSheets
    /\ items = SeedItems
    /\ alerts = 0
    /\ lastModalOp = "init"
    /\ FormNotMounted

\* the visible Modal covers the screen: the controls behind it take no press
ScreenEnabled == ~modalVisible

setActiveTab(tab) ==
    /\ ScreenEnabled
    /\ activeTab' = tab
    /\ UNCHANGED <<modalVisible, selectedItem, countInput, expandedLocations,
                   sheets, items, alerts, lastModalOp>>
    /\ UNCHANGED formVars

\* mutant of toggledSheets: the id is not looked at, every card is flipped
toggledSheets_All(sheetId) ==
    [k \in DOMAIN sheets |-> [sheets[k] EXCEPT !.expanded = ~sheets[k].expanded]]

\* sheets.map of toggleSheetExpansion
toggledSheets(sheetId) ==
    [k \in DOMAIN sheets |->
        IF sheets[k].id = sheetId
        THEN [sheets[k] EXCEPT !.expanded = ~sheets[k].expanded]
        ELSE sheets[k]]

toggleSheetExpansion(sheetId) ==
    /\ ScreenEnabled
    /\ activeTab = "sheet"
    /\ sheets' = toggledSheets(sheetId)
    /\ UNCHANGED <<activeTab, modalVisible, selectedItem, countInput,
                   expandedLocations, items, alerts, lastModalOp>>
    /\ UNCHANGED formVars

\* mutant of toggledLocations: the location is appended without looking
toggledLocations_Append(prev, location) == Append(prev, location)

toggledLocations(prev, location) ==
    IF includes(prev, location)
    THEN filterNot(prev, location)
    ELSE Append(prev, location)

toggleLocationExpansion(location) ==
    /\ ScreenEnabled
    /\ activeTab = "item"
    /\ expandedLocations' = toggledLocations(expandedLocations, location)
    /\ UNCHANGED <<activeTab, modalVisible, selectedItem, countInput,
                   sheets, items, alerts, lastModalOp>>
    /\ UNCHANGED formVars

\* mutant of seedText: the quantity itself is tested, so that a count of 0
\* falls through to the system quantity
seedText_ZeroFalsy(item) ==
    IF IsInt(item.countedQuantity) /\ item.countedQuantity.val # 0
    THEN toString(item.countedQuantity)
    ELSE toString(item.systemQuantity)

\* item.countedQuantity?.toString() || item.systemQuantity.toString()
seedText(item) ==
    IF item.countedQuantity # Null /\ Truthy(toString(item.countedQuantity))
    THEN toString(item.countedQuantity)
    ELSE toString(item.systemQuantity)

\* truthiness of a number or null: null, NaN and 0 are falsy
NumberTruthy(v) == IsInt(v) /\ v.val # 0

\* the children of the Counted Qty text of an item card:
\* item.countedQuantity ? `${item.countedQuantity} ${item.unit}` : 'Not counted'
countedQtyText(item) ==
    IF NumberTruthy(item.countedQuantity)
    THEN <<toString(item.countedQuantity), " ", item.unit>>
    ELSE <<"Not counted">>

openCountModal(item) ==
    /\ ScreenEnabled
    /\ activeTab = "item"
    /\ includes(expandedLocations, item.location)
    /\ selectedItem' = item
    /\ countInput' = seedText(item)
    /\ modalVisible' = TRUE
    /\ lastModalOp' = "openCountModal"
    /\ UNCHANGED <<activeTab, expandedLocations, sheets, items, alerts>>
    /\ UNCHANGED formVars

\* TextInput onChangeText={setCountInput}
setCountInput(text) ==
    /\ modalVisible
    /\ selectedItem # NoItem
    /\ countInput' = text
    /\ lastModalOp' = "setCountInput"
    /\ UNCHANGED <<activeTab, modalVisible, selectedItem, expandedLocations,
                   sheets, items, alerts>>
    /\ UNCHANGED formVars

\* mutant of savedItems: the variance is left as it was
savedItems_StaleVariance(newCount, newVariance) ==
    [k \in DOMAIN items |->
        IF items[k].id = selectedItem.id
        THEN [items[k] EXCEPT !.countedQuantity = newCount]
        ELSE items[k]]

savedItems(newCount, newVariance) ==
    [k \in DOMAIN items |->
        IF items[k].id = selectedItem.id
        THEN [items[k] EXCEPT !.countedQuantity = newCount,
                              !.variance = newVariance]
        ELSE items[k]]

saveCount ==
    /\ modalVisible
    /\ selectedItem # NoItem
    /\ lastModalOp' = "saveCount"
    /\ IF Truthy(countInput)
       THEN LET newCount == parseInt(countInput)
                newVariance == Minus(newCount, selectedItem.systemQuantity)
            IN  /\ alerts < MaxSaves
                /\ items' = savedItems(newCount, newVariance)
                /\ modalVisible' = FALSE
                /\ selectedItem' = NoItem
                /\ countInput' = <<>>
                /\ alerts' = alerts + 1
                /\ UNCHANGED <<activeTab, expandedLocations, sheets>>
       ELSE UNCHANGED <<activeTab, modalVisible, selectedItem, countInput,
                        expandedLocations, sheets, items, alerts>>
    /\ UNCHANGED formVars

\* Modal onRequestClose and the Cancel button: setModalVisible(false)
cancelCount ==
    /\ modalVisible
    /\ modalVisible' = FALSE
    /\ lastModalOp' = "cancelCount"
    /\ UNCHANGED <<activeTab, selectedItem, countInput, expandedLocations,
                   sheets, items, alerts>>
    /\ UNCHANGED formVars

NextList ==
    \/ \E tab \in {"sheet", "item"} : setActiveTab(tab)
    \/ \E k \in DOMAIN sheets : toggleSheetExpansion(sheets[k].id)
    \/ \E g \in DOMAIN groupedItems : toggleLocationExpansion(groupedItems[g].key)
    \/ \E k \in DOMAIN items : openCountModal(items[k])
    \/ \E text \in InputTexts : setCountInput(text)
    \/ saveCount
    \/ cancelCount

SpecList == InitList /\ [][NextList]_vars

-----------------------------------------------------------------------------
(* Handlers of the creation form *)

\* the form is the screen on display until router.back() is called
mounted == backRequests = 0

\* an alert on display takes every press
NoDialog == dialogs = <<>>

\* the Modals cover the form
FormEnabled == mounted /\ NoDialog /\ ~showCalendar /\ ~showLocationModal

\* the Scheduled Date field: setShowCalendar(true)
openCalendar ==
    /\ FormEnabled
    /\ showCalendar' = TRUE
    /\ UNCHANGED <<now, tz, loading, formData, errors, calendarDate, lastPress>>
    /\ UNCHANGED flowVars
    /\ UNCHANGED listVars

\* the calendar's Cancel button and onRequestClose: setShowCalendar(false)
closeCalendar ==
    /\ mounted /\ NoDialog
    /\ showCalendar
    /\ showCalendar' = FALSE
    /\ UNCHANGED <<now, tz, loading, formData, errors, calendarDate, lastPress>>
    /\ UNCHANGED flowVars
    /\ UNCHANGED listVars

\* months between the calendar's month and the month of the clock
MonthsAway(t) ==
    (getFullYear(t) * 12 + getMonth(t)) - (getFullYear(now) * 12 + getMonth(now))

\* mutant of previousMonthOf: the month index wraps around within the year
previousMonthOf_SameYear(prev) ==
    NewDate(getFullYear(prev), (getMonth(prev) - 1) % 12, 1)

\* prev => new Date(prev.getFullYear(), prev.getMonth() - 1, 1)
previousMonthOf(prev) == NewDate(getFullYear(prev), getMonth(prev) - 1, 1)

\* prev => new Date(prev.getFullYear(), prev.getMonth() + 1, 1)
nextMonthOf(prev) == NewDate(getFullYear(prev), getMonth(prev) + 1, 1)

goToPreviousMonth ==
    /\ mounted /\ NoDialog
    /\ showCalendar
    /\ MonthsAway(calendarDate) > -MaxMonthsAway
    /\ calendarDate' = previousMonthOf(calendarDate)
    /\ UNCHANGED <<now, tz, loading, formData, errors, showCalendar, lastPress>>
    /\ UNCHANGED flowVars
    /\ UNCHANGED listVars

goToNextMonth ==
    /\ mounted /\ NoDialog
    /\ showCalendar
    /\ MonthsAway(calendarDate) < MaxMonthsAway
    /\ calendarDate' = nextMonthOf(calendarDate)
    /\ UNCHANGED <<now, tz, loading, formData, errors, showCalendar, lastPress>>
    /\ UNCHANGED flowVars
    /\ UNCHANGED listVars

\* mutant of handleDateSelect: the date is set and the calendar stays open
handleDateSelect_StaysOpen(dateString) ==
    [formData |-> updatedFormData("scheduledDate", dateString),
     errors |-> updatedErrors("scheduledDate"),
     showCalendar |-> showCalendar,
     pressed |-> "selected"]

\* the state cells set by handleDateSelect(dateString)
handleDateSelect(dateString) ==
    [formData |-> updatedFormData("scheduledDate", dateString),
     errors |-> updatedErrors("scheduledDate"),
     showCalendar |-> FALSE,
     pressed |-> "selected"]

\* the state cells as they are
Untouched ==
    [formData |-> formData, errors |-> errors, showCalendar |-> showCalendar,
     pressed |-> "rejected"]

\* mutant of pressedCalendarDay: past cells are neither disabled nor guarded
pressedCalendarDay_NoGuard(index) ==
    CHOOSE after \in
        { handleDateSelect(dayInfo.dateString) :
            dayInfo \in {calendarCell(index)} } : TRUE

\* the state cells after a press on cell index of the grid:
\* onPress={() => !dayInfo.isPast && handleDateSelect(dayInfo.dateString)}
\* disabled={dayInfo.isPast}
pressedCalendarDay(index) ==
    CHOOSE after \in
        { IF dayInfo.isPast THEN Untouched
          ELSE handleDateSelect(dayInfo.dateString) :
            dayInfo \in {calendarCell(index)} } : TRUE

pressCalendarDay(index) ==
    /\ mounted /\ NoDialog
    /\ showCalendar
    /\ \E after \in {pressedCalendarDay(index)} :
          /\ formData' = after.formData
          /\ errors' = after.errors
          /\ showCalendar' = after.showCalendar
          /\ lastPress' = after.pressed
    /\ UNCHANGED <<now, tz, loading, calendarDate>>
    /\ UNCHANGED flowVars
    /\ UNCHANGED listVars

\* TextInput onChangeText={(value) => updateFormData(field, value)}
changeText(field, value) ==
    /\ FormEnabled
    /\ formData' = updatedFormData(field, value)
    /\ errors' = updatedErrors(field)
    /\ UNCHANGED <<now, tz, loading, showCalendar, calendarDate, lastPress>>
    /\ UNCHANGED flowVars
    /\ UNCHANGED listVars

\* the Location field: setShowLocationModal(true)
openLocationModal ==
    /\ FormEnabled
    /\ showLocationModal' = TRUE
    /\ UNCHANGED <<now, tz, loading, formData, errors, showCalendar, calendarDate,
                   lastPress>>
    /\ UNCHANGED <<selectedTemplate, dialogs, outstanding, sheetIds, backRequests>>
    /\ UNCHANGED listVars

\* a row of the location picker:
\* updateFormData('location', location); setShowLocationModal(false)
selectLocation(location) ==
    /\ mounted /\ NoDialog
    /\ showLocationModal
    /\ formData' = updatedFormData("location", location)
    /\ errors' = updatedErrors("location")
    /\ showLocationModal' = FALSE
    /\ UNCHANGED <<now, tz, loading, showCalendar, calendarDate, lastPress>>
    /\ UNCHANGED <<selectedTemplate, dialogs, outstanding, sheetIds, backRequests>>
    /\ UNCHANGED listVars

\* the location picker's Cancel button and onRequestClose
closeLocationModal ==
    /\ mounted /\ NoDialog
    /\ showLocationModal
    /\ showLocationModal' = FALSE
    /\ UNCHANGED <<now, tz, loading, formData, errors, showCalendar, calendarDate,
                   lastPress>>
    /\ UNCHANGED <<selectedTemplate, dialogs, outstanding, sheetIds, backRequests>>
    /\ UNCHANGED listVars

\* a template card: setSelectedTemplate(template.id)
setSelectedTemplate(id) ==
    /\ FormEnabled
    /\ selectedTemplate' = id
    /\ UNCHANGED <<now, tz, loading, formData, errors, showCalendar, calendarDate,
                   lastPress>>
    /\ UNCHANGED <<showLocationModal, dialogs, outstanding, sheetIds, backRequests>>
    /\ UNCHANGED listVars

\* mutant of IsValid: every error map lets the submission start
IsValid_Always(newErrors) == TRUE

\* Object.keys(newErrors).length === 0
IsValid(newErrors) == \A f \in DOMAIN newErrors : newErrors[f] = Undefined

\* mutant of submitDisabled: the Create Sheet button is never disabled
submitDisabled_Never == FALSE

\* the Create Sheet button: disabled={loading}
submitDisabled == loading

\* the Create Sheet button, up to the await of handleCreateSheet:
\* validateForm sets the errors; with an error the Validation Error alert is
\* shown and the handler returns; with none the submission starts
\* (setLoading(true)) and the handler is suspended at its await
handleCreateSheet ==
    /\ FormEnabled
    /\ ~submitDisabled
    /\ \E newErrors \in {validationErrors} :
          /\ errors' = newErrors
          /\ IF IsValid(newErrors)
             THEN /\ loading' = TRUE
                  /\ outstanding' = outstanding + 1
                  /\ dialogs' = dialogs
             ELSE /\ loading' = loading
                  /\ outstanding' = outstanding
                  /\ dialogs' \in alertShown(ValidationAlert)
    /\ UNCHANGED <<now, tz, formData, showCalendar, calendarDate, lastPress>>
    /\ UNCHANGED <<selectedTemplate, showLocationModal, sheetIds, backRequests>>
    /\ UNCHANGED listVars

\* handleCreateSheet from its await on, run when the timer has fired: the
\* try block makes the id and shows the Success alert, the catch block shows
\* the Error alert, the finally block ends with setLoading(false)
resumeCreateSheet(random) ==
    /\ outstanding > 0
    /\ outstanding' = outstanding - 1
    /\ IF simulatedCall = "resolved"
       THEN \E id \in {newSheetId(now, random)} :
               /\ sheetIds' = Append(sheetIds, id)
               /\ dialogs' \in alertShown(SuccessAlert(id))
       ELSE /\ sheetIds' = sheetIds
            /\ dialogs' \in alertShown(ErrorAlert)
    /\ loading' = FALSE
    /\ UNCHANGED <<now, tz, formData, errors, showCalendar, calendarDate, lastPress>>
    /\ UNCHANGED <<selectedTemplate, showLocationModal, backRequests>>
    /\ UNCHANGED listVars

\* mutant of handleCancel: the screen is left without asking
handleCancel_NoPrompt ==
    /\ backRequests' = backRequests + 1
    /\ dialogs' = dialogs

\* handleCancel: the Discard Changes alert if the form has changes,
\* router.back() if it has none
handleCancel ==
    IF hasChanges
    THEN /\ dialogs' \in alertShown(DiscardAlert)
         /\ backRequests' = backRequests
    ELSE /\ backRequests' = backRequests + 1
         /\ dialogs' = dialogs

\* the arrow of the header: onPress={handleCancel}
pressBackButton ==
    /\ FormEnabled
    /\ handleCancel
    /\ UNCHANGED <<now, tz, loading, formData, errors, showCalendar, calendarDate,
                   lastPress>>
    /\ UNCHANGED <<selectedTemplate, showLocationModal, outstanding, sheetIds>>
    /\ UNCHANGED listVars

\* the Cancel button beside Create Sheet: onPress={handleCancel},
\* disabled={loading}
pressCancelButton ==
    /\ FormEnabled
    /\ ~loading
    /\ handleCancel
    /\ UNCHANGED <<now, tz, loading, formData, errors, showCalendar, calendarDate,
                   lastPress>>
    /\ UNCHANGED <<selectedTemplate, showLocationModal, outstanding, sheetIds>>
    /\ UNCHANGED listVars

\* the OK button of the Validation Error, Error and Success alerts; the one
\* of the Success alert calls router.back()
pressAlertOK ==
    /\ ~NoDialog
    /\ topDialog.title \in {"Validation Error", "Error", "Success"}
    /\ dialogs' = dismissed
    /\ backRequests' =
          IF topDialog.title = "Success" THEN backRequests + 1 ELSE backRequests
    /\ lastPress' = "OK"
    /\ UNCHANGED <<now, tz, loading, formData, errors, showCalendar, calendarDate>>
    /\ UNCHANGED <<selectedTemplate, showLocationModal, outstanding, sheetIds>>
    /\ UNCHANGED listVars

\* the Keep Editing button of the Discard Changes alert
pressKeepEditing ==
    /\ ~NoDialog
    /\ topDialog.title = "Discard Changes"
    /\ dialogs' = dismissed
    /\ lastPress' = "Keep Editing"
    /\ UNCHANGED <<now, tz, loading, formData, errors, showCalendar, calendarDate>>
    /\ UNCHANGED <<selectedTemplate, showLocationModal, outstanding, sheetIds,
                   backRequests>>
    /\ UNCHANGED listVars

\* the Discard button of the Discard Changes alert: router.back()
pressDiscard ==
    /\ ~NoDialog
    /\ topDialog.title = "Discard Changes"
    /\ dialogs' = dismissed
    /\ backRequests' = backRequests + 1
    /\ lastPress' = "Discard"
    /\ UNCHANGED <<now, tz, loading, formData, errors, showCalendar, calendarDate>>
    /\ UNCHANGED <<selectedTemplate, showLocationModal, outstanding, sheetIds>>
    /\ UNCHANGED listVars

\* the calendar picker, with the Create Sheet button and its alert
NextCal ==
    \/ openCalendar
    \/ closeCalendar
    \/ goToPreviousMonth
    \/ goToNextMonth
    \/ \E index \in 0..(CellCount - 1) : pressCalendarDay(index)
    \/ handleCreateSheet
    \/ pressAlertOK

SpecCal == InitForm /\ [][NextCal]_vars

\* cells pressed while the form is filled in: the first and the last of the grid
PickedCells == {0, CellCount - 1}

\* the form from its fields to the submission and the way back
NextForm ==
    \/ \E value \in SheetNameTexts : changeText("sheetName", value)
    \/ \E value \in DescriptionTexts : changeText("description", value)
    \/ \E value \in CreatedByTexts : changeText("createdBy", value)
    \/ openLocationModal
    \/ \E k \in PickedLocations : selectLocation(locations[k])
    \/ closeLocationModal
    \/ \E k \in PickedTemplates : setSelectedTemplate(templates[k])
    \/ openCalendar
    \/ closeCalendar
    \/ \E index \in PickedCells : pressCalendarDay(index)
    \/ handleCreateSheet
    \/ \E random \in RandomSuffixes : resumeCreateSheet(random)
    \/ pressBackButton
    \/ pressCancelButton
    \/ pressAlertOK
    \/ pressKeepEditing
    \/ pressDiscard

\* the form is opened a few hours into the 1st of June 2025 (UTC), which is
\* the 31st of May west of UTC
InitSubmit ==
    /\ InitForm
    /\ now = Clock(2025, 6, 1, 3)

SpecForm == InitSubmit /\ [][NextForm]_vars

\* the timer of the simulated call fires: a suspended handleCreateSheet is
\* resumed
SpecFormFair ==
    SpecForm /\ WF_vars(\E random \in RandomSuffixes : resumeCreateSheet(random))

-----------------------------------------------------------------------------
(* Properties of the count modal *)

\* the item of the collection that the modal is editing
IsTarget(k) == items[k].id = selectedItem.id

\* C1: Save with non-empty input that does not parse as an integer is a
\* no-op: no item changes, the modal stays open, the item stays selected.
C1_NonNumericSaveIsNoOp ==
    [][(saveCount /\ Truthy(countInput) /\ ~IsInt(parseInt(countInput)))
         => /\ items' = items
            /\ modalVisible'
            /\ selectedItem' = selectedItem]_vars

\* C2: Save with input that parses to an integer n sets the target item's
\* countedQuantity to n and its variance to n - systemQuantity, changes
\* nothing else in the collection, and ends Closed: modal hidden, no item
\* selected, input empty.  "98" on a system quantity of 100 gives 98 and -2.
C2_SaveCommitsCount ==
    [][(saveCount /\ Truthy(countInput) /\ IsInt(parseInt(countInput)))
         => LET n == parseInt(countInput).val
            IN  /\ DOMAIN items' = DOMAIN items
                /\ Cardinality({k \in DOMAIN items : IsTarget(k)}) = 1
                /\ \A k \in DOMAIN items :
                      IF IsTarget(k)
                      THEN /\ items'[k].countedQuantity = Num(n)
                           /\ items'[k].variance = Num(n - items[k].systemQuantity.val)
                           /\ items'[k] = [items[k] EXCEPT
                                 !.countedQuantity = items'[k].countedQuantity,
                                 !.variance = items'[k].variance]
                           /\ (countInput = <<"9", "8">> /\ items[k].systemQuantity = Num(100))
                                 => /\ items'[k].countedQuantity = Num(98)
                                    /\ items'[k].variance = Num(-2)
                      ELSE items'[k] = items[k]
                /\ ~modalVisible'
                /\ selectedItem' = NoItem
                /\ countInput' = <<>>]_vars

\* C2 witness: "98" has been saved on the item whose system quantity is 25
C2_Witness ==
    /\ lastModalOp = "saveCount"
    /\ ~modalVisible
    /\ selectedItem = NoItem
    /\ items[2].countedQuantity = Num(98)
    /\ items[2].variance = Num(73)

\* C3: every item is uncounted or has an integer count with
\* variance = countedQuantity - systemQuantity.
C3_VarianceInvariant ==
    \A k \in DOMAIN items :
        \/ items[k].countedQuantity = Null
        \/ /\ IsInt(items[k].countedQuantity)
           /\ IsInt(items[k].variance)
           /\ items[k].variance.val =
                 items[k].countedQuantity.val - items[k].systemQuantity.val

\* C4: Cancel from Editing ends Closed (modal hidden, no item selected) and
\* leaves the collection unchanged.
C4_CancelReturnsToClosed ==
    [][cancelCount
         => /\ ~modalVisible'
            /\ selectedItem' = NoItem
            /\ items' = items]_vars

\* C5: Save with empty input is a no-op: no item changes, the modal stays
\* visible and the selected item stays selected.
C5_EmptySaveIsNoOp ==
    [][(saveCount /\ countInput = <<>>)
         => /\ items' = items
            /\ modalVisible'
            /\ selectedItem' = selectedItem
            /\ selectedItem' # NoItem]_vars

\* C5 witness: Save was pressed on an empty field and the modal is still open
C5_Witness ==
    /\ lastModalOp = "saveCount"
    /\ modalVisible
    /\ selectedItem # NoItem
    /\ countInput = <<>>

\* C6: opening the modal seeds the input with the item's counted quantity
\* if it is set (0 included), else with its system quantity, whatever the
\* field held before; no item changes.
C6_OpenSeedsInput ==
    [][\A k \in DOMAIN items :
          openCountModal(items[k])
            => /\ countInput' = IF items[k].countedQuantity # Null
                                THEN toString(items[k].countedQuantity)
                                ELSE toString(items[k].systemQuantity)
               /\ (items[k].countedQuantity = Num(0)) => countInput' = <<"0">>
               /\ (items[k].countedQuantity = Null /\ items[k].systemQuantity = Num(25))
                     => countInput' = <<"2", "5">>
               /\ items' = items]_vars

\* C6 witness: an item counted as 0 has been reopened
C6_Witness ==
    /\ lastModalOp = "openCountModal"
    /\ modalVisible
    /\ selectedItem # NoItem
    /\ selectedItem.countedQuantity = Num(0)
    /\ countInput = <<"0">>

-----------------------------------------------------------------------------
(* Properties of the grouped view *)

\* position of the first item at a location, 0 if there is none
FirstSeen(location) ==
    IF \E k \in DOMAIN items : items[k].location = location
    THEN CHOOSE k \in DOMAIN items :
            /\ items[k].location = location
            /\ \A j \in 1..(k - 1) : items[j].location # location
    ELSE 0

AtLocation(location) ==
    LET Here(item) == item.location = location
    IN  SelectSeq(items, Here)

\* C9: grouping partitions the collection: each group is the subsequence of
\* the items at its key, every item is in exactly one group, and the keys
\* are in first-seen order.
C9_GroupingPartitions ==
    LET g == groupedItems
    IN  /\ \A a \in DOMAIN g : g[a].items = AtLocation(g[a].key)
        /\ \A a, b \in DOMAIN g : g[a].key = g[b].key => a = b
        /\ \A k \in DOMAIN items :
              Cardinality({a \in DOMAIN g : items[k] \in Range(g[a].items)}) = 1
        /\ \A a, b \in DOMAIN g :
              a < b => FirstSeen(g[a].key) < FirstSeen(g[b].key)

\* C9 witness: the collection after a save, grouped under both locations
C9_Witness ==
    /\ alerts > 0
    /\ items # SeedItems
    /\ Len(groupedItems) = 2
    /\ Len(groupedItems[1].items) = 3
    /\ Len(groupedItems[2].items) = 2

\* C10: toggling a location flips its membership in the expanded set and no
\* other, so a second toggle restores the membership; the set starts with
\* exactly one location.
C10_ToggleFlipsMembership ==
    /\ Cardinality(Range(expandedLocations)) = 1
    /\ [][\A g \in DOMAIN groupedItems :
            LET location == groupedItems[g].key
                before == Range(expandedLocations)
            IN  toggleLocationExpansion(location)
                  => /\ Range(expandedLocations') =
                           IF location \in before
                           THEN before \ {location}
                           ELSE before \cup {location}
                     /\ Range(toggledLocations(expandedLocations', location))
                           = before]_vars

\* C10 witness: the default location was collapsed and the other expanded
C10_Witness == expandedLocations = <<"Warehouse B">>

-----------------------------------------------------------------------------
(* Properties of the calendar *)

\* the local calendar date of a cell
CellCivil(cell) == CivilFromDays(LocalDay(cell.date))

\* C7: for every reference month the grid has exactly 42 cells, they are 42
\* consecutive calendar days, and cell 0 is a Sunday.  (January 2025 starts
\* on 2024-12-29, February 2024 on 2024-01-28, June 2025 on 2025-06-01.)
C7_GridIsSixWeeksFromSunday ==
    LET days == generateCalendarDays
        year == getFullYear(calendarDate)
        month == getMonth(calendarDate)
    IN  /\ Len(days) = 42
        /\ (LocalDay(days[1].date) + 4) % 7 = 0
        /\ \A i \in 1..41 :
              LocalDay(days[i + 1].date) = LocalDay(days[i].date) + 1
        /\ \A i \in 1..42 : days[i].day = CellCivil(days[i]).d
        /\ (year = 2025 /\ month = 0)
              => CellCivil(days[1]) = [y |-> 2024, m |-> 12, d |-> 29]
        /\ (year = 2024 /\ month = 1)
              => CellCivil(days[1]) = [y |-> 2024, m |-> 1, d |-> 28]
        /\ (year = 2025 /\ month = 5)
              => CellCivil(days[1]) = [y |-> 2025, m |-> 6, d |-> 1]

\* C7 witness: the calendar was navigated to January 2025, whose grid runs
\* from 29 December 2024 to 8 February 2025
C7_Witness ==
    /\ showCalendar
    /\ calendarDate # now
    /\ getFullYear(calendarDate) = 2025
    /\ getMonth(calendarDate) = 0
    /\ generateCalendarDays[1].day = 29
    /\ generateCalendarDays[42].day = 8

\* C8: a press on a cell whose date is strictly before today changes
\* neither the scheduled date, nor the form errors, nor the calendar's open
\* state.
C8_PastCellPressIsNoOp ==
    showCalendar =>
        \A index \in 0..41 :
            \A dayInfo \in {calendarCell(index)}, after \in {pressedCalendarDay(index)} :
                LocalDay(dayInfo.date) < LocalDay(now)
                  => /\ dayInfo.isPast
                     /\ after.formData = formData
                     /\ after.errors = errors
                     /\ after.showCalendar = showCalendar

\* C8 witness: a past cell was pressed while the date field showed an error
C8_Witness ==
    /\ lastPress = "rejected"
    /\ showCalendar
    /\ errors.scheduledDate # Undefined
    /\ formData.scheduledDate # NoDate

-----------------------------------------------------------------------------
(* Properties of the form validation *)

\* a text with nothing but white space in it
IsBlank(text) == \A i \in DOMAIN text : IsWhiteSpace(text[i])

\* number of characters from the first to the last that is not white space
TrimmedLength(text) ==
    IF IsBlank(text) THEN 0
    ELSE LET solid == {i \in DOMAIN text : ~IsWhiteSpace(text[i])}
             first == CHOOSE i \in solid : \A j \in solid : i <= j
             last == CHOOSE i \in solid : \A j \in solid : j <= i
         IN  last - first + 1

\* the errors that the rules on the three text fields call for
RuleErrors(data) ==
    [sheetName |->
        IF IsBlank(data.sheetName) THEN "Sheet name is required"
        ELSE IF TrimmedLength(data.sheetName) < 3
             THEN "Sheet name must be at least 3 characters"
             ELSE Undefined,
     location |->
        IF IsBlank(data.location) THEN "Location is required" ELSE Undefined,
     createdBy |->
        IF IsBlank(data.createdBy) THEN "Created by field is required"
        ELSE Undefined]

TextFields == {"sheetName", "location", "createdBy"}

\* field values handed to the validation: every mix of kept and broken rules
ValidationInputs ==
    [sheetName : { <<>>, <<" ">>, <<"a", "b">>, <<" ", "a", "b", " ">>,
                   <<"a", " ", "c">> },
     description : { <<>> },
     location : { <<>>, <<" ">>, locations[1] },
     createdBy : { <<>>, <<"X">> },
     scheduledDate : { NoDate, [y |-> 2000, m |-> 1, d |-> 1],
                       isoDate(now + 2 * HoursPerDay) }]

\* C11: the validation returns exactly the errors of the violated rules,
\* each rule on its own: sheetName Required if blank after trimming, else
\* TooShort if the trimmed length is below 3; location Required if blank;
\* createdBy Required if blank.  "ab", no location, "X" and 2000-01-01 give
\* exactly TooShort, Required on location and InPast.  This is so whenever
\* the form takes a press on Create Sheet, and the errors under a Validation
\* Error alert are those of the form it was raised for.
C11_ValidationReportsEveryViolatedRule ==
    /\ FormEnabled =>
          \A data \in ValidationInputs :
             \A newErrors \in {validateForm(data)} :
                /\ \A f \in TextFields : newErrors[f] = RuleErrors(data)[f]
                /\ data.scheduledDate = NoDate
                      => newErrors.scheduledDate = "Scheduled date is required"
                /\ data.scheduledDate.y = 2000
                      => newErrors.scheduledDate = "Scheduled date cannot be in the past"
                /\ data.scheduledDate.y > 2000 => newErrors.scheduledDate = Undefined
    /\ validateForm([sheetName |-> <<"a", "b">>, description |-> <<>>,
                     location |-> <<>>, createdBy |-> <<"X">>,
                     scheduledDate |-> [y |-> 2000, m |-> 1, d |-> 1]])
          = [sheetName |-> "Sheet name must be at least 3 characters",
             location |-> "Location is required",
             createdBy |-> Undefined,
             scheduledDate |-> "Scheduled date cannot be in the past"]
    /\ (~NoDialog /\ topDialog = ValidationAlert)
          => /\ \A f \in TextFields : errors[f] = RuleErrors(formData)[f]
             /\ errors # NoErrors

\* C11 witness: Create Sheet was pressed on a form that breaks three rules
\* at once, and the three errors are shown together
C11_Witness ==
    /\ ~NoDialog
    /\ topDialog = ValidationAlert
    /\ errors.sheetName = "Sheet name is required"
    /\ errors.location = "Location is required"
    /\ errors.createdBy = Undefined
    /\ errors.scheduledDate = "Scheduled date cannot be in the past"

\* the calendar date of a date text, as a day number
DayOfDateString(str) == DaysFromCivil(str.y, str.m, str.d)

\* the error that the rule on the scheduled date calls for: the calendar
\* date of the field against the calendar date of the clock
DateRuleError(scheduledDate) ==
    IF scheduledDate = NoDate THEN "Scheduled date is required"
    ELSE IF DayOfDateString(scheduledDate) < LocalDay(now)
         THEN "Scheduled date cannot be in the past"
         ELSE Undefined

\* C12: the scheduled date fails with Required iff it is unset and with
\* InPast iff its calendar date is strictly before today's calendar date;
\* today's date is accepted at every time of day and in every time zone.
C12_DateRuleComparesCalendarDates ==
    /\ validateForm([formData EXCEPT !.scheduledDate = NoDate]).scheduledDate
          = "Scheduled date is required"
    /\ (~NoDialog /\ topDialog = ValidationAlert)
          => errors.scheduledDate = DateRuleError(formData.scheduledDate)

-----------------------------------------------------------------------------
(* Properties of the submission *)

\* C13: a press on Create Sheet starts a submission (loading becomes true,
\* one more call is suspended at its await) iff the validation of the form
\* as it is at the press leaves no error; with an error nothing is
\* submitted, no id is made, the screen is not left and the field values
\* stay as they are.  An id is only ever made by a submission that started.
C13_SubmitIffValid ==
    /\ [][handleCreateSheet
            => \A newErrors \in {validateForm(formData)} :
                  /\ errors' = newErrors
                  /\ (newErrors = NoErrors) <=> loading'
                  /\ (newErrors = NoErrors) <=> (outstanding' = outstanding + 1)
                  /\ (newErrors # NoErrors)
                        => /\ outstanding' = outstanding
                           /\ dialogs' # <<>>
                           /\ topDialog' = ValidationAlert
                  /\ sheetIds' = sheetIds
                  /\ backRequests' = backRequests
                  /\ formData' = formData
                  /\ selectedTemplate' = selectedTemplate]_vars
    /\ [][sheetIds' # sheetIds => (outstanding > 0 /\ loading)]_vars

\* C13 witness: a first press was blocked by the validation, its alert was
\* dismissed, the form was corrected and a second press started a submission
C13_Witness ==
    /\ lastPress = "OK"
    /\ loading
    /\ outstanding = 1
    /\ sheetIds = <<>>
    /\ errors = NoErrors

\* C14: while a submission is outstanding the Create Sheet button is
\* disabled and its handler cannot run, so at most one submission is
\* outstanding at any time and a second press never makes a second sheet id.
C14_SingleSubmission ==
    /\ outstanding <= 1
    /\ Len(sheetIds) + outstanding <= 1
    /\ outstanding > 0 => (submitDisabled /\ ~ENABLED handleCreateSheet)

\* C14 witness: a submission is outstanding while the form, with no modal
\* and no alert over it, takes presses
C14_Witness ==
    /\ outstanding = 1
    /\ loading
    /\ FormEnabled
    /\ sheetIds = <<>>

\* the number written by the characters from..to of a text of digits
NumberAt(text, from, to) == DigitsValue(SubSeq(text, from, to), 0)

\* "ST-", then the year in 4 digits, the month and the day in 2 digits each,
\* then 4 digits: 15 characters
IsSheetId(id, year, monthNumber, day) ==
    /\ Len(id) = 15
    /\ SubSeq(id, 1, 3) = <<"S", "T", "-">>
    /\ \A i \in 4..15 : IsDigit(id[i])
    /\ NumberAt(id, 4, 7) = year
    /\ NumberAt(id, 8, 9) = monthNumber
    /\ NumberAt(id, 10, 11) = day
    /\ NumberAt(id, 12, 15) \in 0..9999

\* C15: every generated sheet id is "ST-" followed by the 4-digit year, the
\* 2-digit month and the 2-digit day of the current date and by exactly 4
\* digits, the random suffix padded with zeros: 15 characters, for every
\* suffix that an outstanding submission can draw.
C15_SheetIdFormat ==
    \A today \in {CivilFromDays(LocalDay(now))} :
        /\ \A k \in DOMAIN sheetIds :
              IsSheetId(sheetIds[k], today.y, today.m, today.d)
        /\ outstanding > 0 =>
              \A random \in RandomSuffixes :
                 \A id \in {newSheetId(now, random)} :
                    /\ IsSheetId(id, today.y, today.m, today.d)
                    /\ NumberAt(id, 12, 15) = random

\* C15 witness: the id ST-202506010009 was generated and reported, its month,
\* day and suffix padded with zeros
C15_Witness ==
    /\ sheetIds = << <<"S", "T", "-", "2", "0", "2", "5", "0", "6", "0", "1",
                       "0", "0", "0", "9">> >>
    /\ ~NoDialog
    /\ topDialog = SuccessAlert(sheetIds[1])
    /\ ~loading

\* the Success alert with the id made last is on display and loading is off
SuccessReported ==
    /\ ~loading
    /\ outstanding = 0
    /\ sheetIds # <<>>
    /\ ~NoDialog
    /\ topDialog = SuccessAlert(sheetIds[Len(sheetIds)])

\* C16: every started submission runs to completion: whatever the user does
\* meanwhile, it eventually reports success with a generated id and loading
\* is false again; the Error alert is never shown.
C16_SubmissionCompletes ==
    /\ [](\A k \in DOMAIN dialogs : dialogs[k] # ErrorAlert)
    /\ (outstanding > 0) ~> SuccessReported

\* C16 witness: the success was reported after the user had asked to go
\* back during the submission and had then chosen to keep editing
C16_Witness ==
    /\ SuccessReported
    /\ lastPress = "Keep Editing"
    /\ mounted

-----------------------------------------------------------------------------
(* Properties of the way back *)

\* the form has unsaved edits: a sheet name, a description or a location
\* that is not blank, or a template other than the default one
UnsavedEdits ==
    \/ ~IsBlank(formData.sheetName)
    \/ ~IsBlank(formData.description)
    \/ ~IsBlank(formData.location)
    \/ selectedTemplate # templates[1]

\* the state cells of the form
formState ==
    <<formData, errors, selectedTemplate, loading, showLocationModal,
      showCalendar, calendarDate>>

\* C17: a request to go back (header arrow or Cancel button) is answered by
\* the Discard Changes prompt iff the form has unsaved edits, and by leaving
\* the screen at once if it has none; under the prompt the screen is left
\* only by Discard, and Keep Editing leaves the whole form state as it is.
C17_BackGatedByUnsavedEdits ==
    /\ [][(pressBackButton \/ pressCancelButton)
            => /\ IF UnsavedEdits
                  THEN /\ dialogs' # <<>>
                       /\ topDialog' = DiscardAlert
                       /\ backRequests' = backRequests
                  ELSE /\ dialogs' = dialogs
                       /\ backRequests' = backRequests + 1
               /\ formState' = formState]_vars
    /\ [][pressKeepEditing
            => /\ formState' = formState
               /\ backRequests' = backRequests
               /\ dialogs' = dismissed]_vars
    /\ [][pressDiscard => backRequests' = backRequests + 1]_vars
    /\ [][(~NoDialog /\ topDialog = DiscardAlert /\ backRequests' # backRequests)
            => pressDiscard]_vars

\* C17 witness: the only edit is a template other than the default; the
\* prompt was shown, Keep Editing was pressed and the form is back as it was
C17_Witness ==
    /\ lastPress = "Keep Editing"
    /\ mounted
    /\ NoDialog
    /\ formData = InitialFormData(now)
    /\ selectedTemplate # "blank"
    /\ UnsavedEdits

-----------------------------------------------------------------------------
(* Properties of the flags of the calendar cells *)

Cells == 1..CellCount

\* C18: in the grid on display for any reference month, isCurrentMonth is true for
\* exactly the cells whose date lies in the reference month of the reference
\* year: every day of the month is in exactly one cell, these cells are
\* contiguous, and every overflow cell of the month before or after has the
\* flag false, also where the grid spans a year boundary.
C18_CurrentMonthFlag ==
    showCalendar => \A days \in {generateCalendarDays} :
        LET year == getFullYear(calendarDate)
            month == getMonth(calendarDate) + 1
            first == DaysFromCivil(year, month, 1)
            next == IF month = 12 THEN DaysFromCivil(year + 1, 1, 1)
                    ELSE DaysFromCivil(year, month + 1, 1)
            current == {i \in Cells : days[i].isCurrentMonth}
        IN  /\ \A i \in Cells :
                  days[i].isCurrentMonth
                     <=> (CellCivil(days[i]).y = year /\ CellCivil(days[i]).m = month)
            /\ \A d \in 1..(next - first) :
                  Cardinality({i \in current : days[i].day = d}) = 1
            /\ Cardinality(current) = next - first
            /\ \E lo \in Cells : current = lo..(lo + (next - first) - 1)
            /\ \A i \in Cells \ current :
                  \/ LocalDay(days[i].date) < first
                  \/ LocalDay(days[i].date) >= next

\* C18 witness: the grid of December 2024 is on display; it ends in January
\* 2025, in cells that are not of the current month
C18_Witness ==
    /\ showCalendar
    /\ getFullYear(calendarDate) = 2024
    /\ getMonth(calendarDate) = 11
    /\ generateCalendarDays[1].isCurrentMonth
    /\ CellCivil(generateCalendarDays[CellCount]).y = 2025
    /\ CellCivil(generateCalendarDays[CellCount]).m = 1
    /\ ~generateCalendarDays[CellCount].isCurrentMonth

\* C19: in every grid on display a cell is isPast iff its date is strictly before today
\* and isToday iff its date is today, overflow cells included: no cell is
\* both, at most one cell is isToday, every cell before the today cell is
\* past and every cell after it is not.
C19_PastAndTodayFlags ==
    showCalendar => \A days \in {generateCalendarDays}, today \in {LocalDay(now)} :
        /\ \A i \in Cells :
              /\ days[i].isPast <=> LocalDay(days[i].date) < today
              /\ days[i].isToday <=> LocalDay(days[i].date) = today
              /\ ~(days[i].isPast /\ days[i].isToday)
        /\ Cardinality({i \in Cells : days[i].isToday}) <= 1
        /\ \A t \in Cells :
              days[t].isToday
                 => /\ \A i \in 1..(t - 1) : days[i].isPast
                    /\ \A i \in (t + 1)..CellCount : ~days[i].isPast

\* C19 witness: the grid on display has today in an overflow cell, with past
\* cells before it and cells of the current month after it
C19_Witness ==
    /\ showCalendar
    /\ \E t \in 2..CellCount :
          /\ generateCalendarDays[t].isToday
          /\ ~generateCalendarDays[t].isCurrentMonth
          /\ generateCalendarDays[t - 1].isPast

\* C20: a press on any cell that is not isPast, of the current month or not,
\* sets the scheduled date to the cell's date string and closes the
\* calendar; in the grid built from the new scheduled date isSelected is
\* true for that cell and for no other.
C20_PressSelectsTheCell ==
    (showCalendar \/ lastPress = "selected") =>
        \A days \in {generateCalendarDays} :
            /\ \A i \in Cells :
                  days[i].isSelected <=> days[i].dateString = formData.scheduledDate
            /\ showCalendar =>
                  \A i \in Cells :
                     ~days[i].isPast =>
                        \A after \in {pressedCalendarDay(i - 1)} :
                           /\ after.formData.scheduledDate = days[i].dateString
                           /\ after.formData =
                                 [formData EXCEPT !.scheduledDate = days[i].dateString]
                           /\ after.showCalendar = FALSE
                           /\ \A j \in Cells :
                                 days[j].dateString = after.formData.scheduledDate
                                    <=> j = i

\* C20 witness: a cell outside the current month was pressed: the calendar
\* is closed and the scheduled date is the date of that cell
C20_Witness ==
    /\ lastPress = "selected"
    /\ ~showCalendar
    /\ formData.scheduledDate # isoDate(now)
    /\ formData.scheduledDate.m # getMonth(calendarDate) + 1
    /\ \E i \in Cells :
          /\ generateCalendarDays[i].isSelected
          /\ ~generateCalendarDays[i].isCurrentMonth
          /\ \A j \in Cells \ {i} : ~generateCalendarDays[j].isSelected

-----------------------------------------------------------------------------
(* Properties of the field edits *)

\* the steps that set a form field: typing in a text field, a row of the
\* location picker, a press on a calendar cell that is not past
SetsField(field) ==
    \/ /\ field \in {"sheetName", "description", "createdBy"}
       /\ \E value \in SheetNameTexts \cup DescriptionTexts \cup CreatedByTexts :
             changeText(field, value)
    \/ field = "location" /\ \E k \in DOMAIN locations : selectLocation(locations[k])
    \/ field = "scheduledDate" /\ formData'.scheduledDate # formData.scheduledDate

\* C21: setting one form field clears the validation error of that field
\* and leaves the error of every other field as it is; the validation is
\* not run again, so no error appears that was not there before.
C21_EditClearsOwnErrorOnly ==
    [][\A field \in DOMAIN formData :
          SetsField(field)
            => /\ \A f \in DOMAIN errors :
                     errors'[f] = IF f = field THEN Undefined ELSE errors[f]
               /\ \A f \in DOMAIN errors : errors'[f] \in {errors[f], Undefined}
               /\ \A f \in DOMAIN formData \ {field} : formData'[f] = formData[f]]_vars

\* C21 witness: after a blocked submission the sheet name was retyped, still
\* too short: its error is gone, the error of the location is still shown
C21_Witness ==
    /\ NoDialog
    /\ lastPress = "OK"
    /\ formData.sheetName = <<" ", "a">>
    /\ errors.sheetName = Undefined
    /\ validateForm(formData).sheetName # Undefined
    /\ errors.location = "Location is required"

-----------------------------------------------------------------------------
(* Properties of the sheet cards *)

\* C22: toggling a sheet card by its id flips the expanded flag of exactly
\* the card with that id and leaves every other card, every other field of
\* that card, the expanded locations and the items as they are; toggling a
\* location leaves all the sheet cards as they are.
C22_SheetToggleFrame ==
    /\ [][\A c \in DOMAIN sheets :
            toggleSheetExpansion(sheets[c].id)
              => /\ DOMAIN sheets' = DOMAIN sheets
                 /\ Cardinality({k \in DOMAIN sheets : sheets[k].id = sheets[c].id}) = 1
                 /\ sheets'[c].expanded = ~sheets[c].expanded
                 /\ sheets'[c] = [sheets[c] EXCEPT !.expanded = sheets'[c].expanded]
                 /\ \A k \in DOMAIN sheets \ {c} : sheets'[k] = sheets[k]
                 /\ expandedLocations' = expandedLocations
                 /\ items' = items]_vars
    /\ [][\A g \in DOMAIN groupedItems :
            toggleLocationExpansion(groupedItems[g].key) => sheets' = sheets]_vars

\* C22 witness: of the three cards only the second one is expanded
C22_Witness ==
    /\ ~sheets[1].expanded
    /\ sheets[2].expanded
    /\ ~sheets[3].expanded
    /\ sheets # SeedSheets

-----------------------------------------------------------------------------
(* Properties of the month navigation *)

\* the reference month of a calendar date, counted in months
MonthNumber(t) == getFullYear(t) * 12 + getMonth(t)

\* C23: previous-month and next-month navigation shift the reference month
\* by exactly one month, into December of the year before from January and
\* into January of the year after from December, however far the calendar
\* is from the month of the clock; previous then next, and next then
\* previous, give the reference year and month back; navigation leaves the
\* scheduled date as it is.
C23_MonthNavigation ==
    /\ [](showCalendar =>
            \A date \in {calendarDate} :
               \A before \in {previousMonthOf(date)}, after \in {nextMonthOf(date)} :
                  /\ MonthNumber(before) = MonthNumber(date) - 1
                  /\ MonthNumber(after) = MonthNumber(date) + 1
                  /\ getMonth(date) = 0
                        => /\ getMonth(before) = 11
                           /\ getFullYear(before) = getFullYear(date) - 1
                  /\ getMonth(date) = 11
                        => /\ getMonth(after) = 0
                           /\ getFullYear(after) = getFullYear(date) + 1
                  /\ MonthNumber(nextMonthOf(before)) = MonthNumber(date)
                  /\ MonthNumber(previousMonthOf(after)) = MonthNumber(date)
                  /\ MonthNumber(previousMonthOf(before)) = MonthNumber(date) - 2
                  /\ MonthNumber(nextMonthOf(after)) = MonthNumber(date) + 2)
    /\ [][(goToPreviousMonth \/ goToNextMonth)
            => /\ MonthNumber(calendarDate') - MonthNumber(calendarDate) \in {-1, 1}
               /\ goToPreviousMonth
                     => MonthNumber(calendarDate') = MonthNumber(calendarDate) - 1
               /\ formData' = formData
               /\ errors' = errors
               /\ showCalendar']_vars

\* C23 witness: from January 2025 the calendar was taken back to December
\* 2024, with a date picked before still selected
C23_Witness ==
    /\ showCalendar
    /\ getFullYear(now) = 2025
    /\ getMonth(now) = 0
    /\ getFullYear(calendarDate) = 2024
    /\ getMonth(calendarDate) = 11
    /\ lastPress = "selected"
    /\ formData.scheduledDate # isoDate(now)

-----------------------------------------------------------------------------
(* Properties of the dates picked in the calendar *)

\* C24: every date that the calendar lets the user select passes the date
\* validation: a press on a cell that is not isPast gives a scheduled date
\* for which a submission does not report the InPast error, at any time of
\* day and in any time zone.
C24_SelectableDatesAreValid ==
    /\ showCalendar =>
          \A i \in Cells :
             \A dayInfo \in {calendarCell(i - 1)} :
                ~dayInfo.isPast
                   => validateForm(pressedCalendarDay(i - 1).formData).scheduledDate
                         # "Scheduled date cannot be in the past"
    /\ (lastPress = "selected" /\ ~NoDialog /\ topDialog = ValidationAlert)
          => errors.scheduledDate = Undefined

\* C25: for every cell of every grid the date string denotes the calendar
\* date of the cell: its day is the day number shown in the cell, its month
\* and year are those of the cell, in any time zone; the 42 date strings of
\* a grid are pairwise distinct.
C25_DateStringIsTheCellDate ==
    showCalendar =>
        \A days \in {generateCalendarDays} :
            /\ \A i \in Cells :
                  /\ days[i].dateString.d = days[i].day
                  /\ days[i].dateString = CellCivil(days[i])
            /\ \A i, j \in Cells :
                  days[i].dateString = days[j].dateString => i = j

-----------------------------------------------------------------------------
(* Properties of leaving the screen *)

\* C26: while a submission is outstanding no request to go back is issued
\* from the form, so the screen is still the form when the submission
\* reports, and a visit issues at most one router.back().
C26_NoBackWhileSubmitting ==
    /\ outstanding > 0 => mounted
    /\ backRequests <= 1
    /\ (~NoDialog /\ topDialog.title = "Success") => mounted

-----------------------------------------------------------------------------
(* Properties of the item cards *)

\* C27: an item card shows "Not counted" iff the counted quantity of the
\* item is the uncounted sentinel: an item with an integer count, 0
\* included, is shown with that count.
C27_NotCountedIffSentinel ==
    \A k \in DOMAIN items :
        /\ items[k].countedQuantity = Null
              => countedQtyText(items[k]) = <<"Not counted">>
        /\ IsInt(items[k].countedQuantity)
              => /\ Len(countedQtyText(items[k])) = 3
                 /\ countedQtyText(items[k])[1] = toString(items[k].countedQuantity)

====
